---- MODULE Spec2Model ----
(***************************************************************************)
(* Model of the LingoConnect real-time core:                               *)
(*   - the Socket.IO room registry and broadcast handlers                  *)
(*     (src/app/api/socket/route.ts), and                                  *)
(*   - the enhanced speech recognition engine and its React hook           *)
(*     (src/lib/enhanced-speech.ts, useEnhancedSpeech),                    *)
(*   - the translation of the committed utterances (handleTranslation,     *)
(*     src/store/conversation.ts, src/hooks/useSocket.ts), and             *)
(*   - speech synthesis, its queue and auto-speak                          *)
(*     (src/hooks/useTextToSpeech.ts), and                                 *)
(*   - the translation endpoint and its providers                          *)
(*     (api/translate, src/lib/translation-service.ts).                    *)
(***************************************************************************)
EXTENDS Integers, Sequences, FiniteSets, TLC

(***************************************************************************)
(* Bounds and program constants                                            *)
(***************************************************************************)
\* number of client sockets in the general specification
NumSockets == 2
\* number of client sockets in the specification of the room-42 scenario
ScenarioSockets == 3
\* settings.maxParticipants of every room record (route.ts:118)
MaxParticipants == 10

Sockets == 1..NumSockets
\* enough sockets to overfill one room
AllSockets == 1..(MaxParticipants + 1)

\* Room ids a client can send with room:join / room:leave.  EmptyRoom is the
\* empty string (a string, but falsy in JavaScript); NumberRoom stands for a
\* payload that is not a string at all (the number 42): socket.io does not
\* validate the argument against the handler's TypeScript signature.
EmptyRoom == ""
NumberRoom == "<number 42>"
Room42 == "room-42"
Room7 == "room-7"
RoomIds == {EmptyRoom, Room42, Room7, NumberRoom}
\* the ids sent by clients that keep to the declared type (any string), by
\* clients that do not, and by clients that send non-empty strings only
RegularRoomIds == {Room42, Room7}

\* session.roomId === undefined
Undefined == "<undefined>"
\* userSessions.get(socket.id) === undefined
NoSession == [userId |-> <<"none", 0>>, roomId |-> Undefined]

VARIABLES
  sock,              \* socket -> "fresh" | "open" | "closed"
  userSessions,      \* socket -> session record, or NoSession
  roomParticipants,  \* Map roomId -> Set of userIds (DOMAIN = keys)
  activeRooms,       \* Map roomId -> room record (DOMAIN = keys)
  adapterRooms,      \* socket.io adapter: roomId -> sockets joined
  emits,             \* events emitted by the handler that ran last
  replay,            \* history: joins/leaves replayed on plain sets
  scn                \* history: progress through the room-42 scenario

serverVars == <<sock, userSessions, roomParticipants, activeRooms,
                adapterRooms, emits, replay, scn>>

(***************************************************************************)
(* JavaScript helpers                                                      *)
(***************************************************************************)
\* `if (session?.roomId)`: undefined and the empty string are falsy
Truthy(r) == r # Undefined /\ r # EmptyRoom


\* `user_${socket.id}`
UserIdOf(s) == <<"user", s>>

MapSet(m, k, v) == [x \in (DOMAIN m) \cup {k} |-> IF x = k THEN v ELSE m[x]]

MapDelete(m, k) == [x \in (DOMAIN m) \ {k} |-> m[x]]

EmptyMap == [x \in {} |-> {}]

\* participants.delete(userId); if (participants.size === 0) delete the room
\* from both maps.  Returns the two maps after removing user u from room r.
RemoveParticipantMutant(rp, ar, r, u) ==
  IF r \in DOMAIN rp
  THEN [rp |-> MapSet(rp, r, rp[r] \ {u}), ar |-> ar]
  ELSE [rp |-> rp, ar |-> ar]

RemoveParticipant(rp, ar, r, u) ==
  IF r \in DOMAIN rp
  THEN IF rp[r] \ {u} = {}
       THEN [rp |-> MapDelete(rp, r), ar |-> MapDelete(ar, r)]
       ELSE [rp |-> MapSet(rp, r, rp[r] \ {u}), ar |-> ar]
  ELSE [rp |-> rp, ar |-> ar]

\* socket.leave(room) / socket.join(room) on the adapter
AdapterLeave(ad, s, r) == [ad EXCEPT ![r] = @ \ {s}]


\* io.to(room).emit(...): every socket joined to the room
IoTo(ad, r) == ad[r]

\* socket.to(room).emit(...): every socket joined to the room but the sender
SocketTo(ad, s, r) == ad[r] \ {s}

Emit(ev, r, from, to, excl) ==
  [event |-> ev, room |-> r, from |-> from, to |-> to, excl |-> excl]

\* socket.emit('error', {code}) goes to the calling socket only
EmitError(code, s) == Emit(code, Undefined, s, {s}, FALSE)

(***************************************************************************)
(* History variables                                                       *)
(***************************************************************************)
\* The scenario of three sessions in room-42: once the clients have connected,
\* 1, 2 and 3 join, 2 disconnects, 3 leaves, and finally 1 leaves, with no
\* other event in between.
Scenario ==
  << <<"join", 1, Room42>>, <<"join", 2, Room42>>, <<"join", 3, Room42>>,
     <<"disconnect", 2, Undefined>>, <<"leave", 3, Room42>>,
     <<"leave", 1, Room42>> >>

ScnStep(ev) ==
  IF scn >= 0 /\ scn < Len(Scenario) /\ Scenario[scn + 1] = ev
  THEN scn + 1 ELSE -1

\* roomParticipants.get(r), the empty set standing for a missing key
Participants(r) ==
  IF r \in DOMAIN roomParticipants THEN roomParticipants[r] ELSE {}

\* The replay follows the operations for as long as it agrees with the
\* registry; after the state in which they first differ it is given up.
ReplayLost == [x \in RoomIds |-> {<<"lost", 0>>}]

ReplayDiverged == \E x \in RoomIds : replay[x] # Participants(x)

\* join as set-insert into r, which is also the leave (set-remove) from the
\* room the session was recorded in before
ReplayJoin(s, r) ==
  IF ReplayDiverged THEN ReplayLost
  ELSE [x \in RoomIds |->
         IF x = r THEN replay[x] \cup {UserIdOf(s)}
         ELSE IF x = userSessions[s].roomId THEN replay[x] \ {UserIdOf(s)}
         ELSE replay[x]]

ReplayLeave(s, r) ==
  IF ReplayDiverged THEN ReplayLost
  ELSE [replay EXCEPT ![r] = @ \ {UserIdOf(s)}]

ReplayDisconnect(s) ==
  IF ReplayDiverged THEN ReplayLost
  ELSE [x \in RoomIds |-> replay[x] \ {UserIdOf(s)}]

(***************************************************************************)
(* Initial state: module load, no client connected                         *)
(***************************************************************************)
ServerInit ==
  /\ sock = [s \in AllSockets |-> "fresh"]
  /\ userSessions = [s \in AllSockets |-> NoSession]
  /\ roomParticipants = EmptyMap
  /\ activeRooms = EmptyMap
  /\ adapterRooms = [r \in RoomIds |-> {}]
  /\ emits = {}
  /\ replay = [r \in RoomIds |-> {}]
  /\ scn = 0

(***************************************************************************)
(* io.on('connection')                                                     *)
(***************************************************************************)
Connect(s) ==
  /\ sock[s] = "fresh"
  /\ sock' = [sock EXCEPT ![s] = "open"]
  /\ emits' = {}
  /\ scn' = IF scn = 0 THEN 0 ELSE -1
  /\ UNCHANGED <<userSessions, roomParticipants, activeRooms, adapterRooms,
                 replay>>

(***************************************************************************)
(* socket.on('room:join')                                                  *)
(***************************************************************************)
\* the state after "Leave previous room if any" (route.ts:51-62)
LeavePrevious(s) ==
  LET session == userSessions[s] IN
  IF session # NoSession /\ Truthy(session.roomId)
  THEN LET m == RemoveParticipant(roomParticipants, activeRooms,
                                  session.roomId, session.userId)
       IN [ad |-> AdapterLeave(adapterRooms, s, session.roomId),
           rp |-> m.rp, ar |-> m.ar]
  ELSE [ad |-> adapterRooms, rp |-> roomParticipants, ar |-> activeRooms]

RoomJoin(s, r) ==
  LET session == userSessions[s]
      prev == LeavePrevious(s)
      userId == IF session # NoSession THEN session.userId ELSE UserIdOf(s)
      ad == [prev.ad EXCEPT ![r] = @ \cup {s}]
      members == IF r \in DOMAIN prev.rp THEN prev.rp[r] \cup {userId}
                 ELSE {userId}
      rp == MapSet(prev.rp, r, members)
  IN
  /\ sock[s] = "open"
  /\ adapterRooms' = ad
  /\ userSessions' = [userSessions EXCEPT ![s] =
                        [userId |-> userId, roomId |-> r]]
  /\ roomParticipants' = rp
  /\ IF r # NumberRoom   \* roomId.slice(-4) exists only on strings
     THEN /\ activeRooms' = MapSet(prev.ar, r,
                                   [id |-> r, participants |-> members,
                                    createdBy |-> userId,
                                    maxParticipants |-> MaxParticipants])
          /\ emits' = { Emit("user:joined", r, s, SocketTo(ad, s, r), TRUE),
                        Emit("room:updated", r, s, IoTo(ad, r), FALSE) }
     ELSE \* roomId.slice(-4) throws a TypeError at route.ts:110, caught at 138
          /\ activeRooms' = prev.ar
          /\ emits' = { EmitError("ROOM_JOIN_ERROR", s) }
  /\ replay' = ReplayJoin(s, r)
  /\ scn' = ScnStep(<<"join", s, r>>)
  /\ UNCHANGED sock

(***************************************************************************)
(* socket.on('room:leave')                                                 *)
(***************************************************************************)
RoomLeave(s, r) ==
  LET session == userSessions[s] IN
  /\ sock[s] = "open"
  /\ IF session # NoSession /\ session.roomId = r
     THEN LET m == RemoveParticipant(roomParticipants, activeRooms,
                                     r, session.userId)
              ad == AdapterLeave(adapterRooms, s, r)
          IN /\ adapterRooms' = ad
             /\ roomParticipants' = m.rp
             /\ activeRooms' = m.ar
             /\ userSessions' = [userSessions EXCEPT ![s].roomId = Undefined]
             /\ emits' = { Emit("user:left", r, s, SocketTo(ad, s, r), TRUE) }
     ELSE /\ emits' = {}
          /\ UNCHANGED <<adapterRooms, roomParticipants, activeRooms,
                         userSessions>>
  /\ replay' = ReplayLeave(s, r)
  /\ scn' = ScnStep(<<"leave", s, r>>)
  /\ UNCHANGED sock

(***************************************************************************)
(* socket.on('message:send')                                               *)
(***************************************************************************)
\* the id and the timestamp the handler makes for a message
ServerMessageId == "<msg_ time _ random>"
ServerTime == "<new Date()>"

\* { ...a, ...b }
Spread(a, b) ==
  [k \in (DOMAIN a) \cup (DOMAIN b) |-> IF k \in DOMAIN b THEN b[k] ELSE a[k]]

MessageSend(s, data) ==
  LET session == userSessions[s] IN
  /\ sock[s] = "open"
  /\ emits' = IF ~Truthy(session.roomId)
              THEN { EmitError("NO_ROOM", s) }
              ELSE { [event |-> "message:new", room |-> session.roomId,
                      from |-> s,
                      to |-> IoTo(adapterRooms, session.roomId),
                      excl |-> FALSE,
                      message |->
                        Spread(Spread([id |-> ServerMessageId], data),
                               [timestamp |-> ServerTime,
                                userId |-> session.userId])] }
  /\ scn' = ScnStep(<<"send", s, Undefined>>)
  /\ UNCHANGED <<sock, userSessions, roomParticipants, activeRooms,
                 adapterRooms, replay>>

(***************************************************************************)
(* socket.on('user:typing') / socket.on('user:stopped-typing')             *)
(***************************************************************************)
Typing(s, ev) ==
  LET session == userSessions[s] IN
  /\ sock[s] = "open"
  /\ emits' = IF Truthy(session.roomId)
              THEN { Emit(ev, session.roomId, s,
                          SocketTo(adapterRooms, s, session.roomId), TRUE) }
              ELSE {}
  /\ scn' = ScnStep(<<"typing", s, Undefined>>)
  /\ UNCHANGED <<sock, userSessions, roomParticipants, activeRooms,
                 adapterRooms, replay>>

(***************************************************************************)
(* socket.on('disconnect'): socket.io has already removed the socket from  *)
(* every adapter room when the handler runs                                *)
(***************************************************************************)
Disconnect(s) ==
  LET session == userSessions[s]
      ad == [r \in RoomIds |-> adapterRooms[r] \ {s}]
      inRoom == /\ session # NoSession
                /\ Truthy(session.roomId)
                /\ session.roomId \in DOMAIN roomParticipants
      m == IF inRoom
           THEN RemoveParticipant(roomParticipants, activeRooms,
                                  session.roomId, session.userId)
           ELSE [rp |-> roomParticipants, ar |-> activeRooms]
  IN
  /\ sock[s] = "open"
  /\ sock' = [sock EXCEPT ![s] = "closed"]
  /\ adapterRooms' = ad
  /\ roomParticipants' = m.rp
  /\ activeRooms' = m.ar
  /\ emits' = IF inRoom
              THEN { Emit("user:left", session.roomId, s,
                          SocketTo(ad, s, session.roomId), TRUE) }
              ELSE {}
  /\ userSessions' = [userSessions EXCEPT ![s] = NoSession]
  /\ replay' = ReplayDisconnect(s)
  /\ scn' = ScnStep(<<"disconnect", s, Undefined>>)

(***************************************************************************)
(* The room server with the clients S using the room ids R                 *)
(***************************************************************************)

\* the clients connected now: connection seen, disconnect not yet
Connected == {s \in AllSockets : sock[s] = "open"}

ServerStep(S, R) ==
  \/ \E s \in S : Connect(s)
  \/ \E s \in S, r \in R : RoomJoin(s, r)
  \/ \E s \in S, r \in R : RoomLeave(s, r)
  \/ \E s \in S : MessageSend(s, [content |-> "hola"])
  \/ \E s \in S, ev \in {"user:typing", "user:stopped-typing"} :
        Typing(s, ev)
  \/ \E s \in S : Disconnect(s)

\* clients connecting one after the other and joining room-42, none leaving
ConnectInOrder(s) ==
  /\ \A t \in AllSockets : t < s => sock[t] # "fresh"
  /\ Connect(s)

FullRoomNext ==
  \/ \E s \in AllSockets : ConnectInOrder(s)
  \/ \E s \in AllSockets : RoomJoin(s, Room42)


(***************************************************************************)
(***************************************************************************)
(* Speech capture: EnhancedSpeechRecognition and the useEnhancedSpeech     *)
(* hook that drives it                                                     *)
(***************************************************************************)
(***************************************************************************)
\* hook configuration (useEnhancedSpeech): confidenceThreshold 0.6 and
\* maxRetries 3; confidences are percentages
ConfidenceThreshold == 60
MaxRetries == 3
\* `result[0].confidence || 0.8` (enhanced-speech.ts:119)
DefaultConfidence == 80

\* bounds of the speech model
MaxUtterances == 1
MaxPendingRetries == 1
MaxAutoRetries == 4
\* messages in the conversation log
MaxMessages == 2

Confidences == {0, 30, 90}
InterimTexts == {"hel"}
SpeechErrors == {"no-speech", "audio-capture", "network", "not-allowed"}

\* language codes of the store; the source language stays the initial one
Languages == {"en", "es", "fr"}
SourceLanguage == "en"
InitialTargetLanguage == "es"
\* useState(0): the confidence the hook's handleResult has captured
HandlerConfidence == 0
\* result.data.confidence of a translation, confidence of the socket server
TranslationConfidence == 95
\* identical languages at creation: the confidence the design asks for
FullConfidence == 100

VARIABLES
  isSupported,       \* engine: window.SpeechRecognition exists
  rec,               \* browser SpeechRecognition object:
                     \*   "inactive" | "starting" | "active" | "stopping" | "errored"
  isListening,       \* engine.isListening
  retryCount,        \* engine.retryCount
  callbacks,         \* engine.onResult/onError/onVoiceActivity/onStatusChange:
                     \*   "hook" (the hook's handlers) | "undefined"
  autoStopTimer,     \* engine.autoStopTimer is armed
  noSpeechTimer,     \* engine.noSpeechTimer is armed
  voiceActive,       \* engine.voiceActivity.isActive
  retryTimers,       \* pending setTimeout(() => this.startListening(), 1000)
  startPending,      \* debouncedStart has a call waiting
  stopPending,       \* debouncedStop has a call waiting
  status,            \* hook: status
  hookIsListening,   \* hook: isListening
  hookError,         \* hook: error ("null" when none)
  finalTranscript,   \* hook: finalTranscriptRef, the committed utterances
  interimTranscript, \* hook: interimTranscript
  autoTranslate,     \* store: autoTranslate
  messages,          \* store: the conversation log
  lastEvent,         \* history: the speech event handled last
  autoRetries,       \* history: automatic restarts since the caller's start
  targetLanguage,    \* store: targetLanguage
  handlerTarget,     \* hook: the targetLanguage captured by handleResult
  requests,          \* the translation calls, one entry per created message
  translationError   \* hook: translationError ("null" when none)

speechVars == <<isSupported, rec, isListening, retryCount, callbacks,
                autoStopTimer, noSpeechTimer, voiceActive, retryTimers,
                startPending, stopPending, status, hookIsListening, hookError,
                finalTranscript, interimTranscript, autoTranslate, messages,
                lastEvent, autoRetries>>

engineVars == <<isSupported, rec, isListening, retryCount, callbacks,
                autoStopTimer, noSpeechTimer, voiceActive, retryTimers>>

hookVars == <<status, hookIsListening, hookError, finalTranscript,
              interimTranscript, autoTranslate, messages>>

corrVars == <<targetLanguage, handlerTarget, requests, translationError>>

\* bounds of the synthesis model: utterances in the browser's queue, and
\* cancelled utterances whose events have not been delivered yet
MaxTtsQueue == 2
MaxCancelled == 2

SynthTexts == {"hola", "adios"}

VARIABLES
  ttsSupported,      \* textToSpeech.isSupported()
  ttsQueue,          \* speechSynthesis: utterance queue, the head is spoken
  ttsIsSpeaking,     \* useTextToSpeech: isSpeaking
  ttsIsPaused,       \* useTextToSpeech: isPaused
  ttsPaused,         \* speechSynthesis.paused
  ttsCancelled,      \* cancelled utterances whose error event is pending
  ttsError,          \* useTextToSpeech: error ("null" when none)
  ttsEvent           \* history: the synthesis operation handled last

synthVars == <<ttsSupported, ttsQueue, ttsIsSpeaking, ttsIsPaused, ttsPaused,
               ttsCancelled, ttsError, ttsEvent>>

\* bound of the speech queue model: items handed to addToQueue
MaxEnqueued == 3

VARIABLES
  spQueue,           \* useSpeechQueue: queue, items {id, text}
  spProcessing,      \* useSpeechQueue: isProcessing
  spNextId,          \* the id addToQueue gives to the next item
  spSpoken,          \* history: ids of the items handed to speak, in order
  spDiscarded,       \* history: ids of the items a clearQueue has dropped
  spCleared,         \* history: clearQueue has been called
  spEvent            \* history: the queue operation handled last

queueVars == <<spQueue, spProcessing, spNextId, spSpoken, spDiscarded,
               spCleared, spEvent>>

VARIABLES
  autoSpeak,         \* store: autoSpeak
  lastProcessed,     \* lastProcessedMessageRef, 0 for ''
  autoSpoken         \* history: per message, times handed to synthesis

autoVars == <<autoSpeak, lastProcessed, autoSpoken>>

\* checkRateLimit: RATE_LIMIT_MAX_REQUESTS
RateLimitMaxRequests == 100

Providers == <<"Google", "MyMemory", "LibreTranslate">>

VARIABLES
  rlCount,           \* requestCounts: count of the client's key, 0 if none
  trBody,            \* POST /api/translate: body of the request in hand
  trPc,              \* POST /api/translate: "idle", "try" or "done"
  trCalls,           \* history: providers called for the request, in order
  trOutcomes,        \* history: outcome of each call, "ok" or "fail"
  trResponse         \* the response the caller got, Undefined before it

providerVars == <<rlCount, trBody, trPc, trCalls, trOutcomes, trResponse>>

\* bound of the page model: finals accumulated in one transcript
MaxPageFinals == 2

VARIABLES
  pgSupported,       \* speechRecognition.isSupported(): a recognition exists
  pgRec,             \* the service's SpeechRecognition object, states as rec
  svcListening,      \* SpeechRecognitionService.isListening
  store,             \* store: [isListening, speechResult, speechError]
  pgTranscript,      \* useSpeechRecognition: transcript
  pgFinals,          \* history: finals accumulated in transcript
  pgInterim,         \* useSpeechRecognition: interimTranscript
  pgTimeout,         \* timeoutRef holds the pending 30 s timer
  pgRestart,         \* restartTimeoutRef: "none" | "afterResult" | "afterError"
  pgOrphans,         \* pending restart timers restartTimeoutRef has lost
  pgIsTranslating,   \* useSpeechRecognitionWithTranslation: isTranslating
  pgEvent            \* history: the operation of the page handled last

pageVars == <<pgSupported, pgRec, svcListening, store, pgTranscript, pgFinals,
              pgInterim, pgTimeout, pgRestart, pgOrphans, pgIsTranslating,
              pgEvent>>

restVars == <<queueVars, autoVars, providerVars, pageVars>>

clientVars == <<speechVars, corrVars, synthVars, restVars>>

vars == <<serverVars, speechVars, corrVars, synthVars, restVars>>

Event(kind) ==
  [kind |-> kind, confidence |-> 0, isFinal |-> FALSE, delivered |-> FALSE]

SpeechInit ==
  /\ isSupported \in BOOLEAN
  /\ rec = "inactive"
  /\ isListening = FALSE
  /\ retryCount = 0
  /\ callbacks = "undefined"
  /\ autoStopTimer = FALSE
  /\ noSpeechTimer = FALSE
  /\ voiceActive = FALSE
  /\ retryTimers = 0
  /\ startPending = FALSE
  /\ stopPending = FALSE
  /\ status = "idle"
  /\ hookIsListening = FALSE
  /\ hookError = "null"
  /\ finalTranscript = <<>>
  /\ interimTranscript = ""
  /\ autoTranslate \in BOOLEAN
  /\ messages = <<>>
  /\ lastEvent = Event("init")
  /\ autoRetries = 0

\* the store's target language is one of targets when the hook mounts
CorrelatorInit(targets) ==
  /\ targetLanguage \in targets
  /\ handlerTarget = targetLanguage
  /\ requests = <<>>
  /\ translationError = "null"

(***************************************************************************)
(* Engine helpers                                                          *)
(***************************************************************************)
\* const confidence = result[0].confidence || 0.8
\* if (confidence >= this.config.confidenceThreshold || !isFinal)
PassesFilter(raw, isFinal) ==
  LET confidence == IF raw = 0 THEN DefaultConfidence ELSE raw
  IN confidence >= ConfidenceThreshold \/ ~isFinal

ShouldRetry(e) == e \in {"no-speech", "audio-capture", "network"}

GetErrorMessage(e) ==
  CASE e = "no-speech" -> "No speech detected. Please try speaking again."
    [] e = "audio-capture" -> "Microphone not accessible. Please check permissions."
    [] e = "not-allowed" -> "Microphone permission denied. Please allow microphone access."
    [] e = "network" -> "Network error. Please check your connection."
    [] OTHER -> "Speech recognition error"


NotSupportedMessage == "Speech recognition not supported in this browser"

\* recognition.stop(): a started recognition winds down and ends later
RecStop(r) == IF r \in {"starting", "active"} THEN "stopping" ELSE r

\* engine.stopListening(): stop if listening, then cleanup() clears both timers
RecAfterStopListening == IF isListening THEN RecStop(rec) ELSE rec

(***************************************************************************)
(* Hook handlers, as the state they leave behind                           *)
(***************************************************************************)
\* handleStatusChange(newStatus), reached through engine.onStatusChange?.()
StatusAfter(newStatus) == IF callbacks = "hook" THEN newStatus ELSE status

HookListeningAfter(newStatus) ==
  IF callbacks # "hook" THEN hookIsListening
  ELSE IF newStatus = "listening" THEN TRUE
  ELSE IF newStatus \in {"idle", "error"} THEN FALSE
  ELSE hookIsListening

\* Date.now() of handleTranslation: the millisecond of the previous message,
\* or a later one
MessageIds ==
  IF messages = <<>> THEN {1}
  ELSE {messages[Len(messages)].id, messages[Len(messages)].id + 1}

\* the message handleTranslation adds first: the languages and the confidence
\* are those that handleResult has captured
NewMessage(id, text) ==
  [id |-> id, content |-> text, language |-> SourceLanguage,
   targetLanguage |-> handlerTarget, translatedContent |-> Undefined,
   confidence |-> HandlerConfidence]

\* the call to /api/translate that follows; none if the captured languages
\* are the same
NewRequest(id, text) ==
  [id |-> id, text |-> text, to |-> handlerTarget,
   status |-> IF SourceLanguage = handlerTarget THEN "none" ELSE "pending"]

\* result.data.translatedText: the provider's translation of text into `to`
Translate(text, to) == <<to, text>>

\* translatedText of the socket server for a translation:request
SocketTranslate(text) == <<"[TRANSLATED]", text>>

\* updateMessage(messageId, {translatedContent, confidence}): Object.assign on
\* the first message with this id, if any
UpdateMessage(msgs, id, content, conf) ==
  IF \E i \in DOMAIN msgs : msgs[i].id = id
  THEN LET k == CHOOSE i \in DOMAIN msgs :
                  /\ msgs[i].id = id
                  /\ \A j \in DOMAIN msgs : msgs[j].id = id => i <= j
       IN [msgs EXCEPT ![k].translatedContent = content,
                       ![k].confidence = conf]
  ELSE msgs



\* handleError(errorMessage), reached through the onError callback
HandleError(msg) ==
  /\ hookError' = msg
  /\ hookIsListening' = FALSE
  /\ status' = "error"

Min(a, b) == IF a < b THEN a ELSE b

(***************************************************************************)
(* engine.startListening(onResult, onError, onVoiceActivity, onStatusChange)*)
(* cb is "hook" when the hook passes its handlers and "undefined" when the *)
(* retry timer calls this.startListening() without arguments.  Sets every  *)
(* engine variable but retryTimers, and the hook's status and error.       *)
(***************************************************************************)
StartListening(cb) ==
  LET r1 == RecAfterStopListening
      started == isSupported /\ r1 = "inactive"
  IN
  /\ isSupported' = isSupported
  /\ UNCHANGED <<isListening, retryCount, voiceActive>>
  /\ IF ~isSupported
     THEN UNCHANGED <<rec, callbacks, autoStopTimer, noSpeechTimer>>
     ELSE /\ rec' = IF started THEN "starting" ELSE r1
          /\ callbacks' = cb
          /\ autoStopTimer' = IF isListening THEN FALSE ELSE autoStopTimer
          /\ noSpeechTimer' = IF isListening THEN FALSE ELSE noSpeechTimer
  /\ IF ~started /\ cb = "hook"
     THEN HandleError(IF isSupported THEN "recognition has already started"
                      ELSE NotSupportedMessage)
     ELSE UNCHANGED <<hookError, hookIsListening, status>>

(***************************************************************************)
(* Hook controls and the debounced calls (debounce of lib/utils: the last  *)
(* call of a burst runs once the wait has passed)                          *)
(***************************************************************************)
\* debounce(fn, wait): a call replaces the call that is waiting, if any, and
\* restarts the wait; fn runs once, with the arguments of the last call
DebounceCall(pending) == TRUE

\* a startListening of the hook without the support check
HookStartListeningMutant ==
  /\ hookError' = "null"
  /\ startPending' = DebounceCall(startPending)
  /\ translationError' = "null"
  /\ UNCHANGED <<targetLanguage, handlerTarget, requests>>
  /\ lastEvent' = Event(IF isSupported THEN "hookStart"
                        ELSE "hookStartUnsupported")
  /\ UNCHANGED <<engineVars, stopPending, status, hookIsListening,
                 finalTranscript, interimTranscript, autoTranslate, messages,
                 autoRetries>>

\* startListening of useEnhancedSpeech
HookStartListening ==
  /\ IF ~isSupported
     THEN /\ hookError' = NotSupportedMessage
          /\ UNCHANGED startPending
     ELSE /\ hookError' = "null"
          /\ startPending' = DebounceCall(startPending)
  /\ translationError' = IF isSupported THEN "null" ELSE translationError
  /\ UNCHANGED <<targetLanguage, handlerTarget, requests>>
  /\ lastEvent' = Event(IF isSupported THEN "hookStart"
                        ELSE "hookStartUnsupported")
  /\ UNCHANGED <<engineVars, stopPending, status, hookIsListening,
                 finalTranscript, interimTranscript, autoTranslate, messages,
                 autoRetries>>

HookStopListening ==
  /\ stopPending' = DebounceCall(stopPending)
  /\ lastEvent' = Event("hookStop")
  /\ UNCHANGED corrVars
  /\ UNCHANGED <<engineVars, startPending, hookVars, autoRetries>>

DebouncedStartFire ==
  /\ startPending
  /\ startPending' = FALSE
  /\ StartListening("hook")
  /\ autoRetries' = 0
  /\ lastEvent' = Event("start")
  /\ UNCHANGED corrVars
  /\ UNCHANGED <<retryTimers, stopPending, finalTranscript, interimTranscript,
                 autoTranslate, messages>>

\* a stopListening of the engine without cleanup()
StopListeningMutant ==
  /\ rec' = RecAfterStopListening
  /\ UNCHANGED <<autoStopTimer, noSpeechTimer>>
  /\ UNCHANGED <<isSupported, isListening, retryCount, callbacks, voiceActive,
                 retryTimers>>

\* engine.stopListening()
StopListening ==
  /\ rec' = RecAfterStopListening
  /\ autoStopTimer' = FALSE
  /\ noSpeechTimer' = FALSE
  /\ UNCHANGED <<isSupported, isListening, retryCount, callbacks, voiceActive,
                 retryTimers>>

DebouncedStopFire ==
  /\ stopPending
  /\ stopPending' = FALSE
  /\ StopListening
  /\ lastEvent' = Event("stop")
  /\ UNCHANGED corrVars
  /\ UNCHANGED <<startPending, hookVars, autoRetries>>

(***************************************************************************)
(* Timers of the engine                                                    *)
(***************************************************************************)
AutoStopFire ==
  /\ autoStopTimer
  /\ StopListening
  /\ lastEvent' = Event("autoStop")
  /\ UNCHANGED corrVars
  /\ UNCHANGED <<startPending, stopPending, hookVars, autoRetries>>

NoSpeechFire ==
  /\ noSpeechTimer
  /\ StopListening
  /\ lastEvent' = Event("noSpeechStop")
  /\ UNCHANGED corrVars
  /\ UNCHANGED <<startPending, stopPending, hookVars, autoRetries>>

\* setTimeout(() => this.startListening(), 1000), which runs after the onend
\* that follows the error
RetryFire ==
  /\ retryTimers > 0
  /\ rec # "errored"
  /\ autoRetries < MaxAutoRetries
  /\ retryTimers' = retryTimers - 1
  /\ StartListening("undefined")
  /\ autoRetries' = IF RecAfterStopListening = "inactive"
                    THEN autoRetries + 1 ELSE autoRetries
  /\ lastEvent' = Event("retry")
  /\ UNCHANGED corrVars
  /\ UNCHANGED <<startPending, stopPending, finalTranscript,
                 interimTranscript, autoTranslate, messages>>

(***************************************************************************)
(* Events of the browser's SpeechRecognition object                        *)
(***************************************************************************)
OnStart ==
  /\ rec = "starting"
  /\ rec' = "active"
  /\ isListening' = TRUE
  /\ retryCount' = 0
  /\ status' = StatusAfter("listening")
  /\ hookIsListening' = HookListeningAfter("listening")
  /\ autoStopTimer' = TRUE
  /\ lastEvent' = Event("onstart")
  /\ UNCHANGED corrVars
  /\ UNCHANGED <<isSupported, callbacks, noSpeechTimer, voiceActive,
                 retryTimers, startPending, stopPending, hookError,
                 finalTranscript, interimTranscript, autoTranslate, messages,
                 autoRetries>>

OnResult(text, conf, isFinal) ==
  LET delivered == PassesFilter(conf, isFinal) /\ callbacks = "hook"
      committed == delivered /\ isFinal /\ text # ""
      create == committed /\ autoTranslate
  IN
  /\ rec \in {"active", "stopping"}
  /\ isFinal \/ rec = "active"
  /\ committed => Len(finalTranscript) < MaxUtterances
  /\ create => Len(messages) < MaxMessages
  /\ status' = StatusAfter("processing")
  /\ hookIsListening' = HookListeningAfter("processing")
  /\ noSpeechTimer' = TRUE
  /\ voiceActive' = IF text # "" THEN TRUE ELSE voiceActive
  /\ finalTranscript' = IF committed THEN Append(finalTranscript, text)
                        ELSE finalTranscript
  /\ interimTranscript' = IF committed THEN ""
                          ELSE IF delivered /\ ~isFinal THEN text
                          ELSE interimTranscript
  /\ IF create
     THEN \E id \in MessageIds :
            /\ messages' = Append(messages, NewMessage(id, text))
            /\ requests' = Append(requests, NewRequest(id, text))
            /\ translationError' = IF SourceLanguage = handlerTarget
                                   THEN translationError ELSE "null"
     ELSE UNCHANGED <<messages, requests, translationError>>
  /\ UNCHANGED <<targetLanguage, handlerTarget>>
  /\ lastEvent' = [kind |-> "result",
                   confidence |-> conf, isFinal |-> isFinal,
                   delivered |-> delivered]
  /\ UNCHANGED <<isSupported, rec, isListening, retryCount, callbacks,
                 autoStopTimer, retryTimers, startPending, stopPending,
                 hookError, autoTranslate, autoRetries>>

OnError(e) ==
  LET count == IF ShouldRetry(e) THEN Min(retryCount + 1, MaxRetries + 1)
               ELSE retryCount
      retry == ShouldRetry(e) /\ count <= MaxRetries
      reported == ~retry /\ callbacks = "hook"
  IN
  /\ \/ rec = "starting" /\ e \in {"audio-capture", "not-allowed", "network"}
     \/ rec = "active" /\ e \in {"no-speech", "network"}
  /\ retry => retryTimers < MaxPendingRetries
  /\ rec' = "errored"
  /\ isListening' = FALSE
  /\ retryCount' = count
  /\ retryTimers' = IF retry THEN retryTimers + 1 ELSE retryTimers
  /\ autoStopTimer' = IF retry THEN autoStopTimer ELSE FALSE
  /\ noSpeechTimer' = IF retry THEN noSpeechTimer ELSE FALSE
  /\ IF reported
     THEN HandleError(GetErrorMessage(e))
     ELSE /\ status' = StatusAfter("error")
          /\ hookIsListening' = HookListeningAfter("error")
          /\ hookError' = hookError
  /\ lastEvent' = [kind |-> "error", confidence |-> 0,
                   isFinal |-> FALSE, delivered |-> reported]
  /\ UNCHANGED corrVars
  /\ UNCHANGED <<isSupported, callbacks, voiceActive, startPending,
                 stopPending, finalTranscript, interimTranscript,
                 autoTranslate, messages, autoRetries>>

OnEnd ==
  /\ rec \in {"active", "stopping", "errored"}
  /\ rec' = "inactive"
  /\ isListening' = FALSE
  /\ status' = StatusAfter("idle")
  /\ hookIsListening' = HookListeningAfter("idle")
  /\ voiceActive' = FALSE
  /\ autoStopTimer' = FALSE
  /\ noSpeechTimer' = FALSE
  /\ lastEvent' = Event("onend")
  /\ UNCHANGED corrVars
  /\ UNCHANGED <<isSupported, retryCount, callbacks, retryTimers,
                 startPending, stopPending, hookError, finalTranscript,
                 interimTranscript, autoTranslate, messages, autoRetries>>

\* onspeechstart / onspeechend / onnomatch
VoiceEvent(kind) ==
  /\ rec = "active"
  /\ voiceActive' = CASE kind = "onspeechstart" -> TRUE
                      [] kind = "onspeechend" -> FALSE
                      [] OTHER -> voiceActive
  /\ noSpeechTimer' = TRUE
  /\ lastEvent' = Event(kind)
  /\ UNCHANGED corrVars
  /\ UNCHANGED <<isSupported, rec, isListening, retryCount, callbacks,
                 autoStopTimer, retryTimers, startPending, stopPending,
                 hookVars, autoRetries>>

(***************************************************************************)
(* Translation correlator: the store, the responses of /api/translate and  *)
(* the translation events of the socket                                    *)
(***************************************************************************)
\* resetTranscript() of the hook
ResetTranscript ==
  /\ finalTranscript' = <<>>
  /\ interimTranscript' = ""
  /\ lastEvent' = Event("resetTranscript")
  /\ UNCHANGED <<engineVars, startPending, stopPending, status,
                 hookIsListening, hookError, autoTranslate, messages,
                 autoRetries, corrVars>>

\* setTargetLanguage(language) of the store; handleResult is memoised on
\* autoTranslate only and keeps the languages it has captured
SetTargetLanguage(l) ==
  /\ l # targetLanguage
  /\ targetLanguage' = l
  /\ lastEvent' = Event("setTargetLanguage")
  /\ UNCHANGED <<engineVars, startPending, stopPending, hookVars,
                 autoRetries, handlerTarget, requests, translationError>>

\* the fetch of request i resolves with result.success
ResponseSuccess(i) ==
  /\ requests[i].status = "pending"
  /\ messages' = UpdateMessage(messages, requests[i].id,
                               Translate(requests[i].text, requests[i].to),
                               TranslationConfidence)
  /\ requests' = [requests EXCEPT ![i].status = "complete"]
  /\ lastEvent' = Event("translated")
  /\ UNCHANGED <<engineVars, startPending, stopPending, status,
                 hookIsListening, hookError, finalTranscript,
                 interimTranscript, autoTranslate, autoRetries,
                 targetLanguage, handlerTarget, translationError>>

\* a failure handler that runs handleTranslation again for the same text
ResponseFailureMutant(i) ==
  /\ requests[i].status = "pending"
  /\ translationError' = "Translation failed"
  /\ requests' = Append([requests EXCEPT ![i].status = "failed"],
                        [requests[i] EXCEPT !.status = "pending"])
  /\ messages' = Append(messages, messages[i])
  /\ lastEvent' = Event("translationFailed")
  /\ UNCHANGED <<engineVars, startPending, stopPending, status,
                 hookIsListening, hookError, finalTranscript,
                 interimTranscript, autoTranslate, autoRetries,
                 targetLanguage, handlerTarget>>

\* the fetch of request i rejects, or resolves without result.success
ResponseFailure(i) ==
  /\ requests[i].status = "pending"
  /\ translationError' = "Translation failed"
  /\ requests' = [requests EXCEPT ![i].status = "failed"]
  /\ lastEvent' = Event("translationFailed")
  /\ UNCHANGED <<engineVars, startPending, stopPending, hookVars,
                 autoRetries, targetLanguage, handlerTarget>>

\* the socket's translation:complete event for message id `id`
TranslationComplete(id, text) ==
  /\ messages' = UpdateMessage(messages, id, SocketTranslate(text),
                               TranslationConfidence)
  /\ lastEvent' = Event("translation:complete")
  /\ UNCHANGED <<engineVars, startPending, stopPending, status,
                 hookIsListening, hookError, finalTranscript,
                 interimTranscript, autoTranslate, autoRetries, corrVars>>

\* completeTranslation(messageId, translation) of the store: sets
\* translatedContent only, on the first message with this id
CompleteTranslation(id, text) ==
  /\ messages' =
       IF \E i \in DOMAIN messages : messages[i].id = id
       THEN LET k == CHOOSE i \in DOMAIN messages :
                       /\ messages[i].id = id
                       /\ \A j \in DOMAIN messages :
                            messages[j].id = id => i <= j
            IN [messages EXCEPT ![k].translatedContent =
                                   SocketTranslate(text)]
       ELSE messages
  /\ lastEvent' = Event("completeTranslation")
  /\ UNCHANGED <<engineVars, startPending, stopPending, status,
                 hookIsListening, hookError, finalTranscript,
                 interimTranscript, autoTranslate, autoRetries, corrVars>>

\* the utterances spoken while the correlator is observed
SpokenTexts == {"hello", "hi"}

\* capture driven by the caller, without errors and timers, and the
\* correlator
TranslationNext ==
  \/ HookStartListening
  \/ HookStopListening
  \/ DebouncedStartFire
  \/ DebouncedStopFire
  \/ OnStart
  \/ \E text \in SpokenTexts : OnResult(text, 90, TRUE)
  \/ OnEnd
  \/ ResetTranscript
  \/ \E l \in Languages : SetTargetLanguage(l)
  \/ \E i \in DOMAIN requests : ResponseSuccess(i)
  \/ \E i \in DOMAIN requests : ResponseFailure(i)

\* one capture session, and the translation events of the socket and of the
\* store for the messages in the log
SocketTranslationNext ==
  \/ HookStartListening
  \/ DebouncedStartFire
  \/ OnStart
  \/ \E text \in SpokenTexts : OnResult(text, 90, TRUE)
  \/ OnEnd
  \/ \E i \in DOMAIN requests : ResponseSuccess(i)
  \/ \E i \in DOMAIN requests : ResponseFailure(i)
  \/ \E i \in DOMAIN messages :
        TranslationComplete(messages[i].id, messages[i].content)
  \/ \E i \in DOMAIN messages :
        CompleteTranslation(messages[i].id, messages[i].content)

(***************************************************************************)
(* Speech synthesis: useTextToSpeech over the browser's speechSynthesis    *)
(***************************************************************************)
SynthInit(supported) ==
  /\ ttsSupported \in supported
  /\ ttsQueue = <<>>
  /\ ttsIsSpeaking = FALSE
  /\ ttsIsPaused = FALSE
  /\ ttsPaused = FALSE
  /\ ttsCancelled = 0
  /\ ttsError = "null"
  /\ ttsEvent = [kind |-> "init", text |-> ""]


\* speechSynthesis.cancel(): every utterance leaves the queue, the one that
\* is spoken ceases at once; each gets its error event later
CancelledAfter(q) == Min(ttsCancelled + Len(q), MaxCancelled)

\* speak(text) of useTextToSpeech: `if (isSpeaking) stop()`, then
\* setIsSpeaking(true) and speechSynthesis.speak(utterance)
Speak(text) ==
  /\ ttsEvent' = [kind |-> "speak", text |-> text]
  /\ ttsSupported' = ttsSupported
  /\ ttsPaused' = ttsPaused
  /\ IF ~ttsSupported
     THEN /\ ttsError' = "Text-to-speech not supported in this browser"
          /\ UNCHANGED <<ttsQueue, ttsIsSpeaking, ttsIsPaused, ttsCancelled>>
     ELSE /\ ttsError' = "null"
          /\ ttsIsSpeaking' = TRUE
          /\ IF ttsIsSpeaking
             THEN /\ ttsQueue' = <<text>>
                  /\ ttsCancelled' = CancelledAfter(ttsQueue)
                  /\ ttsIsPaused' = FALSE
             ELSE /\ Len(ttsQueue) < MaxTtsQueue
                  /\ ttsQueue' = Append(ttsQueue, text)
                  /\ ttsCancelled' = ttsCancelled
                  /\ ttsIsPaused' = ttsIsPaused

\* stop() of useTextToSpeech
Stop ==
  /\ ttsEvent' = [kind |-> "stop", text |-> ""]
  /\ IF ttsSupported
     THEN /\ ttsQueue' = <<>>
          /\ ttsCancelled' = CancelledAfter(ttsQueue)
          /\ ttsIsSpeaking' = FALSE
          /\ ttsIsPaused' = FALSE
     ELSE UNCHANGED <<ttsQueue, ttsCancelled, ttsIsSpeaking, ttsIsPaused>>
  /\ UNCHANGED <<ttsSupported, ttsPaused, ttsError>>

\* pause() of useTextToSpeech
Pause ==
  /\ ttsEvent' = [kind |-> "pause", text |-> ""]
  /\ IF ttsSupported /\ ttsIsSpeaking
     THEN ttsPaused' = TRUE /\ ttsIsPaused' = TRUE
     ELSE UNCHANGED <<ttsPaused, ttsIsPaused>>
  /\ UNCHANGED <<ttsSupported, ttsQueue, ttsIsSpeaking, ttsCancelled,
                 ttsError>>

\* resume() of useTextToSpeech
Resume ==
  /\ ttsEvent' = [kind |-> "resume", text |-> ""]
  /\ IF ttsSupported /\ ttsIsPaused
     THEN ttsPaused' = FALSE /\ ttsIsPaused' = FALSE
     ELSE UNCHANGED <<ttsPaused, ttsIsPaused>>
  /\ UNCHANGED <<ttsSupported, ttsQueue, ttsIsSpeaking, ttsCancelled,
                 ttsError>>

\* utterance.onend of the utterance that is spoken: its promise resolves
UtteranceEnd ==
  /\ ttsQueue # <<>>
  /\ ~ttsPaused
  /\ ttsQueue' = Tail(ttsQueue)
  /\ ttsIsSpeaking' = FALSE
  /\ ttsEvent' = [kind |-> "end", text |-> Head(ttsQueue)]
  /\ UNCHANGED <<ttsSupported, ttsIsPaused, ttsPaused, ttsCancelled,
                 ttsError>>

\* utterance.onerror of the utterance that is spoken: its promise rejects
UtteranceError ==
  /\ ttsQueue # <<>>
  /\ ~ttsPaused
  /\ ttsQueue' = Tail(ttsQueue)
  /\ ttsIsSpeaking' = FALSE
  /\ ttsError' = "Speech synthesis error: synthesis-failed"
  /\ ttsEvent' = [kind |-> "error", text |-> Head(ttsQueue)]
  /\ UNCHANGED <<ttsSupported, ttsIsPaused, ttsPaused, ttsCancelled>>

\* utterance.onerror of a cancelled utterance
CancelledError ==
  /\ ttsCancelled > 0
  /\ ttsCancelled' = ttsCancelled - 1
  /\ ttsIsSpeaking' = FALSE
  /\ ttsError' = "Speech synthesis error: interrupted"
  /\ ttsEvent' = [kind |-> "cancelled", text |-> ""]
  /\ UNCHANGED <<ttsSupported, ttsQueue, ttsIsPaused, ttsPaused>>

SynthesisNext ==
  \/ \E text \in SynthTexts : Speak(text)
  \/ Stop
  \/ Pause
  \/ Resume
  \/ UtteranceEnd
  \/ UtteranceError
  \/ CancelledError

(***************************************************************************)
(* The speech queue: useSpeechQueue over its own useTextToSpeech           *)
(***************************************************************************)
QueueInit ==
  /\ spQueue = <<>>
  /\ spProcessing = FALSE
  /\ spNextId = 1
  /\ spSpoken = <<>>
  /\ spDiscarded = {}
  /\ spCleared = FALSE
  /\ spEvent = "init"

ItemIds(q) == {q[i].id : i \in 1..Len(q)}

\* current.slice(1)
Slice1(q) == IF q = <<>> THEN <<>> ELSE Tail(q)

\* addToQueue(text): the id is Date.now() followed by a random suffix
AddToQueue(text) ==
  /\ spNextId <= MaxEnqueued
  /\ spQueue' = Append(spQueue, [id |-> spNextId, text |-> text])
  /\ spNextId' = spNextId + 1
  /\ spEvent' = "add"
  /\ UNCHANGED <<spProcessing, spSpoken, spDiscarded, spCleared, synthVars>>

\* the condition of the "Process queue" effect
ProcessEnabled == spQueue # <<>> /\ ~spProcessing /\ ~ttsIsSpeaking

\* the "Process queue" effect when its condition holds
ProcessQueue ==
  /\ ProcessEnabled
  /\ spProcessing' = TRUE
  /\ Speak(Head(spQueue).text)
  /\ spSpoken' = Append(spSpoken, Head(spQueue).id)
  /\ spEvent' = "process"
  /\ UNCHANGED <<spQueue, spNextId, spDiscarded, spCleared>>

\* the utterance ends: speak calls onEnd, which is processNext
QueueUtteranceEnd ==
  /\ UtteranceEnd
  /\ spQueue' = Slice1(spQueue)
  /\ spProcessing' = IF Slice1(spQueue) = <<>> THEN FALSE ELSE spProcessing
  /\ spEvent' = "end"
  /\ UNCHANGED <<spNextId, spSpoken, spDiscarded, spCleared>>

\* the utterance fails: speak calls onError, which the queue does not pass
QueueUtteranceError ==
  /\ UtteranceError
  /\ spEvent' = "error"
  /\ UNCHANGED <<spQueue, spProcessing, spNextId, spSpoken, spDiscarded,
                 spCleared>>

\* the error event of an utterance a clearQueue has cancelled
QueueCancelledError ==
  /\ CancelledError
  /\ spEvent' = "cancelled"
  /\ UNCHANGED <<spQueue, spProcessing, spNextId, spSpoken, spDiscarded,
                 spCleared>>

ClearQueueMutant ==
  /\ spQueue' = <<>>
  /\ spProcessing' = FALSE
  /\ spDiscarded' = spDiscarded \cup ItemIds(spQueue)
  /\ spCleared' = TRUE
  /\ spEvent' = "clear"
  /\ UNCHANGED <<spNextId, spSpoken, synthVars>>

\* clearQueue()
ClearQueue ==
  /\ spQueue' = <<>>
  /\ spProcessing' = FALSE
  /\ Stop
  /\ spDiscarded' = spDiscarded \cup ItemIds(spQueue)
  /\ spCleared' = TRUE
  /\ spEvent' = "clear"
  /\ UNCHANGED <<spNextId, spSpoken>>

QueueNext ==
  \/ \E text \in SynthTexts : AddToQueue(text)
  \/ ProcessQueue
  \/ QueueUtteranceEnd
  \/ QueueUtteranceError
  \/ QueueCancelledError
  \/ ClearQueue

(***************************************************************************)
(* Auto-speak: useAutoTextToSpeech over the messages of the store          *)
(***************************************************************************)
AutoInit ==
  /\ autoSpeak = TRUE
  /\ lastProcessed = 0
  /\ autoSpoken = [i \in 1..MaxMessages |-> 0]

\* latestMessage.translatedContent as a condition
HasTranslation(m) ==
  m.translatedContent # Undefined /\ m.translatedContent # ""

\* the condition of the "Auto-speak new translated messages" effect; the
\* messages of the capture hook all have userId 'user'
AutoSpeakEnabled ==
  /\ autoSpeak
  /\ ttsSupported
  /\ messages # <<>>
  /\ messages[Len(messages)].id # lastProcessed
  /\ HasTranslation(messages[Len(messages)])

\* the effect when its condition holds
AutoSpeakEffect ==
  /\ AutoSpeakEnabled
  /\ lastProcessed' = messages[Len(messages)].id
  /\ Speak(messages[Len(messages)].translatedContent)
  /\ autoSpoken' = [autoSpoken EXCEPT ![Len(messages)] = Min(@ + 1, 2)]
  /\ UNCHANGED autoSpeak

\* speech capture with translation, and the synthesis of the translations
AutoSpeakNext ==
  \/ /\ \/ HookStartListening
        \/ DebouncedStartFire
        \/ OnStart
        \/ \E text \in SpokenTexts : OnResult(text, 90, TRUE)
        \/ OnEnd
        \/ ResetTranscript
        \/ \E i \in 1..Len(requests) : ResponseSuccess(i)
        \/ \E i \in 1..Len(requests) : ResponseFailure(i)
     /\ UNCHANGED <<synthVars, autoVars>>
  \/ AutoSpeakEffect /\ UNCHANGED <<speechVars, corrVars>>
  \/ /\ \/ UtteranceEnd
        \/ CancelledError
     /\ UNCHANGED <<speechVars, corrVars, autoVars>>

(***************************************************************************)
(* POST /api/translate over EnhancedTranslationService                     *)
(***************************************************************************)
ProviderInit ==
  /\ rlCount = 0
  /\ trBody = [text |-> "", from |-> SourceLanguage, to |-> SourceLanguage]
  /\ trPc = "idle"
  /\ trCalls = <<>>
  /\ trOutcomes = <<>>
  /\ trResponse = Undefined

(***************************************************************************)
(* The conversation page: useSpeechRecognitionWithTranslation over         *)
(* SpeechRecognitionService and the store                                  *)
(***************************************************************************)
PageTexts == {"hello", "world"}

PageInit(supports) ==
  /\ pgSupported \in supports
  /\ pgRec = "inactive"
  /\ svcListening = FALSE
  /\ store = [isListening |-> FALSE, speechResult |-> <<>>,
              speechError |-> "null"]
  /\ pgTranscript = ""
  /\ pgFinals = 0
  /\ pgInterim = ""
  /\ pgTimeout = FALSE
  /\ pgRestart = "none"
  /\ pgOrphans = {}
  /\ pgIsTranslating = FALSE
  /\ pgEvent = "init"

\* store.setSpeechResult(result); speechResult is <<>> for null, else
\* <<transcript, isFinal>>
SetSpeechResult(st, result) == [st EXCEPT !.speechResult = result]

\* store.setSpeechError(error): also clears isListening, whatever error is
SetSpeechError(st, error) ==
  [st EXCEPT !.speechError = error, !.isListening = FALSE]

\* onerror of the service: `Speech recognition error: ${event.error}`
ServiceErrorMessage(e) == "Speech recognition error: " \o e

\* error.includes('no-speech') || 'audio-capture' || 'network', over the
\* messages handleError receives
Recoverable(error) ==
  error \in {ServiceErrorMessage(e) :
               e \in {"no-speech", "audio-capture", "network"}}

\* resetTranscript() on the store
ResetStore(st) == SetSpeechError(SetSpeechResult(st, <<>>), "null")

\* startListening of useSpeechRecognition, the store being st and the
\* restart timer of restartTimeoutRef being ref when it runs; the service
\* stops a session it believes to be running, then start() throws unless
\* the recognition is inactive
PageStartListening(st, ref) ==
  IF ~pgSupported
  THEN /\ store' = SetSpeechError(st, NotSupportedMessage)
       /\ pgRestart' = ref
       /\ UNCHANGED <<pgRec, svcListening, pgTimeout>>
  ELSE LET r1 == IF svcListening THEN RecStop(pgRec) ELSE pgRec
           started == r1 = "inactive"
           \* storeStartListening(), then setSpeechError(null)
           st1 == SetSpeechError([st EXCEPT !.isListening = TRUE,
                                            !.speechError = "null"], "null")
       IN /\ pgRec' = IF started THEN "starting" ELSE r1
          /\ svcListening' = started
          /\ store' = IF started THEN st1
                      ELSE SetSpeechError(st1,
                                          "Failed to start speech recognition")
          /\ pgTimeout' = TRUE
          /\ pgRestart' = "none"

\* stopListening of useSpeechRecognition
PageStopListening(st) ==
  /\ pgTimeout' = FALSE
  /\ pgRestart' = "none"
  /\ pgRec' = IF svcListening THEN RecStop(pgRec) ELSE pgRec
  /\ svcListening' = FALSE
  /\ store' = [st EXCEPT !.isListening = FALSE]

\* handleMicToggle of the page
MicToggle ==
  /\ IF store.isListening
     THEN /\ PageStopListening(store)
          /\ UNCHANGED <<pgTranscript, pgFinals, pgInterim>>
     ELSE /\ pgTranscript' = ""
          /\ pgFinals' = 0
          /\ pgInterim' = ""
          /\ PageStartListening(ResetStore(store), pgRestart)
  /\ pgEvent' = IF store.isListening THEN "stop" ELSE "start"
  /\ UNCHANGED <<pgSupported, pgOrphans, pgIsTranslating, messages, requests,
                 translationError>>

\* the "Clear Chat" button: clearMessages() and resetTranscript()
ClearChat ==
  /\ messages # <<>>
  /\ messages' = <<>>
  /\ pgTranscript' = ""
  /\ pgFinals' = 0
  /\ pgInterim' = ""
  /\ store' = ResetStore(store)
  /\ pgEvent' = "clear"
  /\ UNCHANGED <<pgSupported, pgRec, svcListening, pgTimeout, pgRestart,
                 pgOrphans, pgIsTranslating, requests, translationError>>

\* the 30 s timer of startListening fires
TimeoutFire ==
  /\ pgTimeout
  /\ PageStopListening(store)
  /\ pgEvent' = "timeout"
  /\ UNCHANGED <<pgSupported, pgTranscript, pgFinals, pgInterim, pgOrphans,
                 pgIsTranslating, messages, requests, translationError>>

\* the body of a restart timer, restartTimeoutRef holding ref: the timer set
\* after a final result starts only if the service is not listening
RestartBody(kind, ref) ==
  IF kind = "afterResult" /\ svcListening
  THEN /\ pgRestart' = ref
       /\ UNCHANGED <<pgRec, svcListening, store, pgTimeout>>
  ELSE PageStartListening(store, ref)

\* the restart timer restartTimeoutRef holds fires
RestartFire ==
  /\ pgRestart # "none"
  /\ RestartBody(pgRestart, "none")
  /\ pgEvent' = "restart"
  /\ UNCHANGED <<pgSupported, pgTranscript, pgFinals, pgInterim, pgOrphans,
                 pgIsTranslating, messages, requests, translationError>>

\* a restart timer that handleError has overwritten in the ref fires
OrphanFire(kind) ==
  /\ kind \in pgOrphans
  /\ pgOrphans' = pgOrphans \ {kind}
  /\ RestartBody(kind, pgRestart)
  /\ pgEvent' = "restart"
  /\ UNCHANGED <<pgSupported, pgTranscript, pgFinals, pgInterim,
                 pgIsTranslating, messages, requests, translationError>>

\* the recognition has started (the service registers no onstart)
PageOnStart ==
  /\ pgRec = "starting"
  /\ pgRec' = "active"
  /\ pgEvent' = "onstart"
  /\ UNCHANGED <<pgSupported, svcListening, store, pgTranscript, pgFinals,
                 pgInterim, pgTimeout, pgRestart, pgOrphans, pgIsTranslating,
                 messages, requests, translationError>>

\* onresult of the service, handleResult of the hook and, for a final, the
\* onTranscript of useSpeechRecognitionWithTranslation with handleTranslation:
\* it adds the message, then fetches unless the languages are the same
PageOnResult(text, isFinal) ==
  LET \* prev + (prev ? ' ' : '') + result.transcript
      newTranscript ==
        pgTranscript \o (IF pgTranscript # "" THEN " " ELSE "") \o text
      \* transcript.trim() of words joined by single spaces is the transcript
      translate == isFinal /\ autoTranslate /\ newTranscript # ""
      fetch == translate /\ SourceLanguage # targetLanguage
      \* Date.now().toString(): the millisecond of the last request or the
      \* next one
      ids == IF requests = <<>> THEN {1}
             ELSE {requests[Len(requests)].id, requests[Len(requests)].id + 1}
  IN
  /\ pgRec \in {"active", "stopping"}
  /\ isFinal \/ pgRec = "active"
  /\ isFinal => pgFinals < MaxPageFinals
  /\ translate => Len(requests) < MaxMessages
  /\ store' = SetSpeechResult(store, <<text, isFinal>>)
  /\ IF isFinal
     THEN /\ pgTranscript' = newTranscript
          /\ pgFinals' = pgFinals + 1
          /\ pgInterim' = ""
          /\ pgRestart' = "afterResult"
     ELSE /\ pgInterim' = text
          /\ UNCHANGED <<pgTranscript, pgFinals, pgRestart>>
  /\ IF translate
     THEN \E id \in ids :
            /\ messages' = Append(messages,
                 [id |-> id, content |-> newTranscript,
                  language |-> SourceLanguage,
                  targetLanguage |-> targetLanguage,
                  translatedContent |-> Undefined, confidence |-> Undefined])
            /\ requests' = Append(requests,
                 [id |-> id, text |-> newTranscript, to |-> targetLanguage,
                  status |-> IF fetch THEN "pending" ELSE "none"])
            /\ pgIsTranslating' = IF fetch THEN TRUE ELSE pgIsTranslating
            /\ translationError' = IF fetch THEN "null" ELSE translationError
     ELSE UNCHANGED <<messages, requests, pgIsTranslating, translationError>>
  /\ pgEvent' = "result"
  /\ UNCHANGED <<pgSupported, pgRec, svcListening, pgTimeout, pgOrphans>>

\* onerror of the service and handleError of the hook (autoRestart is on); a
\* timer already in restartTimeoutRef is overwritten without being cleared
PageOnError(e) ==
  LET error == ServiceErrorMessage(e)
      lost == Recoverable(error) /\ pgRestart # "none"
  IN
  /\ \/ pgRec = "starting" /\ e \in {"audio-capture", "not-allowed", "network"}
     \/ pgRec = "active" /\ e \in {"no-speech", "network"}
  /\ lost => pgRestart \notin pgOrphans
  /\ pgRec' = "errored"
  /\ svcListening' = FALSE
  /\ store' = SetSpeechError(store, error)
  /\ pgRestart' = IF Recoverable(error) THEN "afterError" ELSE pgRestart
  /\ pgOrphans' = IF lost THEN pgOrphans \cup {pgRestart} ELSE pgOrphans
  /\ pgEvent' = "error"
  /\ UNCHANGED <<pgSupported, pgTranscript, pgFinals, pgInterim, pgTimeout,
                 pgIsTranslating, messages, requests, translationError>>

\* onend of the service
PageOnEnd ==
  /\ pgRec \in {"active", "stopping", "errored"}
  /\ pgRec' = "inactive"
  /\ svcListening' = FALSE
  /\ pgEvent' = "onend"
  /\ UNCHANGED <<pgSupported, store, pgTranscript, pgFinals, pgInterim,
                 pgTimeout, pgRestart, pgOrphans, pgIsTranslating, messages,
                 requests, translationError>>

\* the fetch of request i settles: updateMessage on success, the error on
\* failure, and setIsTranslating(false) in the finally of either
PageResponse(i, ok) ==
  /\ requests[i].status = "pending"
  /\ IF ok
     THEN /\ messages' = UpdateMessage(messages, requests[i].id,
                                       Translate(requests[i].text,
                                                 requests[i].to),
                                       TranslationConfidence)
          /\ requests' = [requests EXCEPT ![i].status = "complete"]
          /\ UNCHANGED translationError
     ELSE /\ translationError' = "Translation failed"
          /\ requests' = [requests EXCEPT ![i].status = "failed"]
          /\ UNCHANGED messages
  /\ pgIsTranslating' = FALSE
  /\ pgEvent' = "response"
  /\ UNCHANGED <<pgSupported, pgRec, svcListening, store, pgTranscript,
                 pgFinals, pgInterim, pgTimeout, pgRestart, pgOrphans>>

PageNext ==
  \/ MicToggle
  \/ ClearChat
  \/ TimeoutFire
  \/ RestartFire
  \/ \E kind \in {"afterResult", "afterError"} : OrphanFire(kind)
  \/ PageOnStart
  \/ \E text \in PageTexts : PageOnResult(text, TRUE)
  \/ \E text \in InterimTexts : PageOnResult(text, FALSE)
  \/ \E e \in SpeechErrors : PageOnError(e)
  \/ PageOnEnd
  \/ \E i \in 1..Len(requests), ok \in BOOLEAN : PageResponse(i, ok)

RestInit == QueueInit /\ AutoInit /\ ProviderInit /\ PageInit({TRUE})

\* a text of more than 5000 characters
TooLongText == "<5001 characters>"


Failure(code) == [success |-> FALSE, code |-> code]

Success(text, confidence, provider) ==
  [success |-> TRUE, translatedText |-> text, confidence |-> confidence,
   provider |-> provider]

\* what a provider that answers returns for a request
ProviderTranslation(p, body) == <<p, body.to, body.text>>

ProviderConfidence(p) ==
  CASE p = "Google" -> 90
    [] p = "MyMemory" -> 80
    [] p = "LibreTranslate" -> 85

\* getTranslationDictionary, for the texts and languages of the model
MockDictionary ==
  [es |-> [hello |-> "hola", hi |-> "hola"],
   fr |-> [hello |-> "bonjour"]]

\* getEnhancedMockTranslation
MockTranslation(body) ==
  IF /\ body.from = "en"
     /\ body.to \in DOMAIN MockDictionary
     /\ body.text \in DOMAIN MockDictionary[body.to]
  THEN Success(MockDictionary[body.to][body.text], 95, "mock")
  ELSE Success(<<"[Translation]", body.to, body.text>>, 70, "mock")

\* POST up to the first provider call: checkRateLimit, validation and the
\* short-circuit for equal languages; `expired` is now > resetTime
Post(text, to, expired) ==
  LET body == [text |-> text, from |-> SourceLanguage, to |-> to]
      fresh == rlCount = 0 \/ expired
      allowed == fresh \/ rlCount < RateLimitMaxRequests
  IN  /\ trPc \in {"idle", "done"}
      /\ rlCount' = IF fresh THEN 1
                    ELSE IF allowed THEN rlCount + 1 ELSE rlCount
      /\ trBody' = body
      /\ trCalls' = <<>>
      /\ trOutcomes' = <<>>
      /\ IF ~allowed
         THEN trResponse' = Failure("RATE_LIMIT_EXCEEDED") /\ trPc' = "done"
         ELSE IF text = ""
         THEN trResponse' = Failure("INVALID_REQUEST") /\ trPc' = "done"
         ELSE IF text = TooLongText
         THEN trResponse' = Failure("TEXT_TOO_LONG") /\ trPc' = "done"
         ELSE IF body.from = body.to
         THEN trResponse' = Success(text, FullConfidence, "none")
              /\ trPc' = "done"
         ELSE trResponse' = Undefined /\ trPc' = "try"

ProviderResultMutant(ok) ==
  LET p == Providers[Len(trCalls) + 1]
      last == Len(trCalls) + 1 = Len(Providers)
  IN  /\ trPc = "try"
      /\ trCalls' = Append(trCalls, p)
      /\ trOutcomes' = Append(trOutcomes, IF ok THEN "ok" ELSE "fail")
      /\ IF last
         THEN /\ trResponse' =
                   IF ok THEN Success(ProviderTranslation(p, trBody),
                                      ProviderConfidence(p), p)
                   ELSE MockTranslation(trBody)
              /\ trPc' = "done"
         ELSE UNCHANGED <<trResponse, trPc>>
      /\ UNCHANGED <<rlCount, trBody>>

\* one turn of the loop of translateText: the next provider answers or
\* fails; after the last failure the mock translation is returned
ProviderResult(ok) ==
  LET p == Providers[Len(trCalls) + 1]
      last == Len(trCalls) + 1 = Len(Providers)
  IN  /\ trPc = "try"
      /\ trCalls' = Append(trCalls, p)
      /\ trOutcomes' = Append(trOutcomes, IF ok THEN "ok" ELSE "fail")
      /\ IF ok
         THEN /\ trResponse' = Success(ProviderTranslation(p, trBody),
                                       ProviderConfidence(p), p)
              /\ trPc' = "done"
         ELSE IF last
         THEN trResponse' = MockTranslation(trBody) /\ trPc' = "done"
         ELSE UNCHANGED <<trResponse, trPc>>
      /\ UNCHANGED <<rlCount, trBody>>

ProviderNext ==
  \/ \E text \in {"", "hello", "hi", TooLongText}, to \in Languages, expired \in BOOLEAN :
        Post(text, to, expired)
  \/ \E ok \in BOOLEAN : ProviderResult(ok)

SpeechNext ==
  \/ HookStartListening
  \/ HookStopListening
  \/ DebouncedStartFire
  \/ DebouncedStopFire
  \/ AutoStopFire
  \/ NoSpeechFire
  \/ RetryFire
  \/ OnStart
  \/ \E text \in {"", "hello", "hi"}, conf \in Confidences : OnResult(text, conf, TRUE)
  \/ \E text \in InterimTexts, conf \in Confidences :
        OnResult(text, conf, FALSE)
  \/ \E e \in SpeechErrors : OnError(e)
  \/ OnEnd
  \/ \E kind \in {"onspeechstart", "onspeechend", "onnomatch"} :
        VoiceEvent(kind)

(***************************************************************************)
(* Specifications                                                          *)
(***************************************************************************)
\* the speech side at rest, for the specifications of the room server
SpeechAtRest ==
  /\ SpeechInit
  /\ CorrelatorInit({InitialTargetLanguage})
  /\ isSupported = TRUE
  /\ autoTranslate = TRUE

Init == ServerInit /\ SpeechAtRest /\ SynthInit({TRUE}) /\ RestInit

Next == ServerStep(Sockets, {EmptyRoom, Room42}) /\ UNCHANGED clientVars

\* the room server with clients that send strings as room ids
Spec == Init /\ [][Next]_vars

\* the room server with clients that send any payload as room id
UntypedSpec ==
  Init /\ [][ServerStep(Sockets, {EmptyRoom, Room42, NumberRoom})
              /\ UNCHANGED clientVars]_vars

SpeechSpecInit ==
  /\ ServerInit
  /\ SpeechInit
  /\ CorrelatorInit({InitialTargetLanguage})
  /\ SynthInit({TRUE})
  /\ RestInit

\* one client's speech capture under any browser and caller behaviour
SpeechSpec ==
  SpeechSpecInit
    /\ [][SpeechNext /\ UNCHANGED <<serverVars, synthVars, restVars>>]_vars

\* a supported browser, any target language in the store at mount
TranslationInit ==
  /\ ServerInit
  /\ SpeechInit
  /\ isSupported = TRUE
  /\ CorrelatorInit(Languages)
  /\ SynthInit({TRUE})
  /\ RestInit

\* speech capture and the translation of its messages over /api/translate
TranslationSpec ==
  TranslationInit
    /\ [][TranslationNext
           /\ UNCHANGED <<serverVars, synthVars, restVars>>]_vars

\* the same with the translation events of the socket and the store
SocketTranslationSpec ==
  TranslationInit
    /\ [][SocketTranslationNext
           /\ UNCHANGED <<serverVars, synthVars, restVars>>]_vars

\* speech synthesis in a browser that may or may not support it
SynthesisInit ==
  ServerInit /\ SpeechAtRest /\ SynthInit(BOOLEAN) /\ RestInit

SynthesisSpec ==
  SynthesisInit
    /\ [][SynthesisNext
           /\ UNCHANGED <<serverVars, speechVars, corrVars,
                          restVars>>]_vars

\* the speech queue of one component, driven by addToQueue and clearQueue
QueueSpec ==
  Init /\ [][QueueNext /\ UNCHANGED <<serverVars, speechVars, corrVars,
                                       autoVars, providerVars,
                                       pageVars>>]_vars

\* capture, translation and auto-speak of one client
AutoSpeakSpec ==
  Init /\ [][AutoSpeakNext
              /\ UNCHANGED <<serverVars, queueVars, providerVars,
                             pageVars>>]_vars

\* one client of the translation endpoint, one request at a time
ProviderSpec ==
  Init /\ [][ProviderNext
              /\ UNCHANGED <<serverVars, speechVars, corrVars, synthVars,
                             queueVars, autoVars, pageVars>>]_vars

\* the controls, timers and events of speech capture with auto-translate off

ControlNext ==
  \/ HookStartListening
  \/ HookStopListening
  \/ DebouncedStartFire
  \/ DebouncedStopFire
  \/ AutoStopFire
  \/ NoSpeechFire
  \/ RetryFire
  \/ OnStart
  \/ \E text \in SpokenTexts, isFinal \in BOOLEAN :
        OnResult(text, 90, isFinal)
  \/ \E e \in SpeechErrors : OnError(e)
  \/ OnEnd

ControlSpec ==
  SpeechSpecInit /\ autoTranslate = FALSE
    /\ [][ControlNext /\ UNCHANGED <<serverVars, synthVars, restVars>>]_vars

\* the conversation page of one client under any browser behaviour; the
\* page does not use the capture of useEnhancedSpeech
PageSpecInit ==
  /\ ServerInit
  /\ SpeechInit
  /\ isSupported = TRUE
  /\ CorrelatorInit({SourceLanguage, InitialTargetLanguage})
  /\ SynthInit({TRUE})
  /\ QueueInit
  /\ AutoInit
  /\ ProviderInit
  /\ PageInit(BOOLEAN)

PageSpec ==
  PageSpecInit
    /\ [][PageNext
           /\ UNCHANGED <<serverVars, synthVars, queueVars, autoVars,
                          providerVars, engineVars, startPending,
                          stopPending, status, hookIsListening, hookError,
                          finalTranscript, interimTranscript, autoTranslate,
                          lastEvent, autoRetries, targetLanguage,
                          handlerTarget>>]_vars

\* the room server with clients that choose the payload of message:send: a
\* message text, alone or with fields of the client's choice
MessageNext ==
  \/ \E s \in Sockets : Connect(s)
  \/ \E s \in Sockets, r \in RegularRoomIds : RoomJoin(s, r)
  \/ \E s \in Sockets,
           data \in { [content |-> "hola"],
                      [content |-> "hola", id |-> "client-id"],
                      [content |-> "hola", userId |-> "someone-else"],
                      [content |-> "hola", timestamp |-> "client-time"],
                      [content |-> "hola", id |-> "client-id",
                       userId |-> "someone-else",
                       timestamp |-> "client-time"] } :
        MessageSend(s, data)
  \/ \E s \in Sockets : Disconnect(s)

MessageSpec == Init /\ [][MessageNext /\ UNCHANGED clientVars]_vars

\* the room server with three clients that use regular room ids
ScenarioSpec ==
  Init /\ [][ServerStep(1..ScenarioSockets, RegularRoomIds)
              /\ UNCHANGED clientVars]_vars

\* the room server while one room fills up
FullRoomSpec == Init /\ [][FullRoomNext /\ UNCHANGED clientVars]_vars


(***************************************************************************)
(***************************************************************************)
(* Properties                                                              *)
(***************************************************************************)
(***************************************************************************)

\* C1: after any sequence of join, leave and disconnect events a room has a
\* record in activeRooms and a key in roomParticipants if and only if its
\* participant set is non-empty.
C1_RoomIffParticipants ==
  \A r \in RoomIds :
    /\ r \in DOMAIN activeRooms <=> Participants(r) # {}
    /\ r \in DOMAIN roomParticipants => roomParticipants[r] # {}

\* C2: the participant set of every room equals the replay of the joins as
\* set-insert and of the leaves as set-remove on an initially empty set.
C2_ReplayEquals == \A r \in RoomIds : Participants(r) = replay[r]

\* C3: the user id of a session is in the participant set of at most one
\* room, and that room is the session's recorded current room.
C3_AtMostOneRoom ==
  \A s \in AllSockets :
    userSessions[s] # NoSession =>
      \A r \in RoomIds :
        userSessions[s].userId \in Participants(r)
          => r = userSessions[s].roomId

\* C4 as stated: after sessions 1, 2 and 3 joined room-42 and 2 disconnected,
\* user:left reaches exactly 1 and 3, the room has 2 participants and is still
\* registered; after 3 then left, room-42 is removed from the registry.
SecondGone ==
  /\ emits = { Emit("user:left", Room42, 2, {1, 3}, TRUE) }
  /\ Cardinality(Participants(Room42)) = 2
  /\ Room42 \in DOMAIN activeRooms

Room42Removed ==
  /\ Room42 \notin DOMAIN activeRooms
  /\ Room42 \notin DOMAIN roomParticipants

C4_Original ==
  /\ scn = 4 => SecondGone
  /\ scn = 5 => Room42Removed

\* C4 as amended: after sessions 1, 2 and 3 joined room-42 and 2 disconnected,
\* user:left reaches exactly 1 and 3, the room has 2 participants and is still
\* registered; after 3 then left, room-42 is still registered with session 1
\* as its only participant, and it is removed once session 1 has left too.
C4_ScenarioRoom42 ==
  /\ scn = 4 => SecondGone
  /\ scn = 5 => /\ Room42 \in DOMAIN activeRooms
                /\ Participants(Room42) = {UserIdOf(1)}
                /\ emits = { Emit("user:left", Room42, 3, {1}, TRUE) }
  /\ scn = 6 => Room42Removed

C4_Witness == scn = 6 /\ Room42Removed

\* C5: a join that the server answers with a join error changes neither the
\* sessions, nor any participant set, nor the room registry.
C5_RejectedJoinNoChange ==
  [][ (\E s \in AllSockets : EmitError("ROOM_JOIN_ERROR", s) \in emits')
        => UNCHANGED <<userSessions, roomParticipants, activeRooms>> ]_vars

\* C6: no room holds more participants than settings.maxParticipants.
C6_RoomNeverOverfull ==
  \A r \in DOMAIN roomParticipants :
    Cardinality(roomParticipants[r]) <= MaxParticipants

\* C7: every event broadcast to a room reaches exactly the connected sessions
\* whose current room it is, but for the excluded sender.
C7_BroadcastToMembers ==
  \A e \in emits :
    e.room # Undefined =>
      e.to = {s \in AllSockets : /\ sock[s] = "open"
                                  /\ userSessions[s].roomId = e.room}
               \ (IF e.excl THEN {e.from} ELSE {})

\* C8: a final result whose confidence is below the threshold is not
\* delivered, appends no transcript and creates no message; an interim result
\* is delivered to the registered caller whatever its confidence.
C8_LowConfidenceFinalSuppressed ==
  [][ lastEvent'.kind = "result" =>
        /\ (lastEvent'.isFinal /\ lastEvent'.confidence < ConfidenceThreshold)
             => /\ ~lastEvent'.delivered
                /\ finalTranscript' = finalTranscript
                /\ messages' = messages
        /\ (~lastEvent'.isFinal /\ callbacks = "hook")
             => lastEvent'.delivered ]_vars

\* C9: once a result has been handled while the hook is listening, the status
\* is back to listening.
C9_StatusBackToListening ==
  (lastEvent.kind = "result" /\ callbacks = "hook" /\ hookIsListening)
    => status = "listening"

\* C10: recognition is restarted automatically at most maxRetries times after
\* one start by the caller.
C10_RetriesBounded == autoRetries <= MaxRetries

\* C11: while the engine listens, the silence timer is armed, also when no
\* speech or result event has occurred since the start, so that silence of
\* the configured duration stops the session as an explicit stop does.
C11_SilenceTimerArmed ==
  (rec = "active" /\ isListening) => noSpeechTimer

\* C12: start and stop calls of one burst coalesce to the last call: right
\* after a stop call no start command reaches the engine, and right after a
\* start call no stop command reaches it.
C12_BurstCoalesces ==
  [][ /\ lastEvent.kind = "hookStop" => lastEvent'.kind # "start"
      /\ lastEvent.kind = "hookStart" => lastEvent'.kind # "stop" ]_vars

\* C13: a start command that reaches the engine while it is listening is
\* absorbed: the running recognition is neither stopped nor failed.
C13_StartWhileListeningAbsorbed ==
  [][ (lastEvent'.kind = "start" /\ isListening /\ rec = "active")
        => /\ rec' = "active"
           /\ isListening'
           /\ status' = status
           /\ hookError' = hookError ]_vars

\* C14: every committed final transcript creates exactly one message, added
\* to the log in the step that commits it and before its translation call,
\* with translatedContent and confidence empty.
C14_CommitCreatesMessage ==
  [][ Len(finalTranscript') > Len(finalTranscript)
        => /\ Len(messages') = Len(messages) + 1
           /\ messages'[Len(messages')].content
                = finalTranscript'[Len(finalTranscript')]
           /\ messages'[Len(messages')].translatedContent = Undefined
           /\ messages'[Len(messages')].confidence = Undefined
           /\ Len(requests') = Len(messages') ]_vars

\* C15: the language pair stored on a message is the store's source and
\* target language at the moment the message is created, also when the
\* target language has been changed since the hook was mounted or started.
C15_PairAtCommit ==
  [][ Len(messages') > Len(messages)
        => /\ messages'[Len(messages')].language = SourceLanguage
           /\ messages'[Len(messages')].targetLanguage = targetLanguage ]_vars

\* C16: a message created with equal source and target language has its
\* translatedContent equal to its content and confidence 1.0, and no
\* translation call was made for it.
C16_SameLanguageShortCircuit ==
  \A i \in DOMAIN messages :
    messages[i].language = messages[i].targetLanguage
      => /\ messages[i].translatedContent = messages[i].content
         /\ messages[i].confidence = FullConfidence
         /\ requests[i].status = "none"

\* C17: whatever the order in which the responses arrive, and whether or not
\* the target language was changed or capture was stopped meanwhile, the
\* translatedContent of a message is the translation of its own request.
C17_OwnTranslation ==
  \A i \in DOMAIN messages :
    messages[i].translatedContent # Undefined
      => messages[i].translatedContent
           = Translate(requests[i].text, requests[i].to)

\* C18: once the translatedContent of a message is set, no later event
\* changes it.
C18_TranslatedOnce ==
  [][ \A i \in DOMAIN messages :
        messages[i].translatedContent # Undefined
          => /\ i \in DOMAIN messages'
             /\ messages'[i].translatedContent
                  = messages[i].translatedContent ]_vars

\* C19: when a translation request fails, every message stays in the log as
\* it was, a translation error is surfaced, the failed request is over and
\* no request is issued or issued again.
C19_FailureLeavesMessage ==
  [][ /\ lastEvent'.kind = "translationFailed"
        => /\ messages' = messages
           /\ translationError' # "null"
           /\ Len(requests') = Len(requests)
           /\ \E i \in DOMAIN requests :
                 /\ requests[i].status = "pending"
                 /\ requests'[i].status = "failed"
           /\ \A i \in DOMAIN requests :
                 requests'[i].status = "pending"
                   => requests[i].status = "pending"
      /\ \A i \in DOMAIN requests :
            requests[i].status = "failed"
              => /\ i \in DOMAIN requests'
                 /\ requests'[i].status = "failed" ]_vars

C19_Witness ==
  /\ lastEvent.kind = "translationFailed"
  /\ translationError # "null"
  /\ \E i \in DOMAIN requests :
        /\ requests[i].status = "failed"
        /\ messages[i].translatedContent = Undefined
        /\ messages[i].confidence = HandlerConfidence

\* C20: the browser speaks the utterances of its queue one at a time, and a
\* speak request made while an utterance is spoken is deferred: it is queued
\* behind the utterances that are there and does not cut the current one off.
C20_SpeakDefers ==
  [][ (ttsEvent'.kind = "speak" /\ ttsSupported /\ ttsQueue # <<>>)
        => ttsQueue' = Append(ttsQueue, ttsEvent'.text) ]_vars

\* C21: the speech queue is consumed in enqueue order, one item at a time,
\* and it drains: while clearQueue has not been called and no utterance has
\* failed, the items handed to speak are the first items enqueued, in order,
\* the browser holds at most one utterance, and whenever nothing is spoken
\* and the process effect has nothing to do, every enqueued item has been
\* handed to speak.
C21_QueueDrains ==
  (~spCleared /\ ttsError = "null") =>
    /\ spSpoken = [i \in 1..Len(spSpoken) |-> i]
    /\ Len(ttsQueue) <= 1
    /\ (ttsQueue = <<>> /\ ~ProcessEnabled) => Len(spSpoken) = spNextId - 1

\* C22: clearQueue leaves the queue empty, nothing spoken and nothing
\* speaking, and no item it has dropped is handed to speak afterwards.
C22_ClearDiscards ==
  [][ /\ spEvent' = "clear" =>
           /\ spQueue' = <<>>
           /\ ttsQueue' = <<>>
           /\ ~ttsIsSpeaking'
           /\ ~spProcessing'
      /\ spSpoken' # spSpoken =>
           spSpoken'[Len(spSpoken')] \notin spDiscarded' ]_vars

\* an item is handed to speak after a clearQueue that dropped the utterance
\* in progress and a waiting item
C22_Witness ==
  /\ spEvent = "process"
  /\ Cardinality(spDiscarded) >= 2
  /\ Len(spSpoken) >= 2
  /\ spSpoken[1] \in spDiscarded
  /\ spSpoken[Len(spSpoken)] \notin spDiscarded

\* C23: with auto-speak enabled no message is handed to synthesis twice, and
\* once the auto-speak effect has nothing left to do every message that has
\* a translation has been handed to synthesis exactly once.
C23_HandedOnce ==
  autoSpeak =>
    \A i \in 1..Len(messages) :
      /\ autoSpoken[i] <= 1
      /\ (HasTranslation(messages[i]) /\ ~AutoSpeakEnabled)
           => autoSpoken[i] = 1

\* C24: the providers are called in their fixed order and the first one that
\* answers ends the request: its call is the last one, and the caller gets a
\* success response that carries this provider's translation.
C24_FirstSuccessReturned ==
  /\ trCalls = SubSeq(Providers, 1, Len(trCalls))
  /\ Len(trOutcomes) = Len(trCalls)
  /\ \A k \in 1..Len(trOutcomes) :
       trOutcomes[k] = "ok" =>
         /\ k = Len(trOutcomes)
         /\ trPc = "done"
         /\ trResponse.success
         /\ trResponse.translatedText = ProviderTranslation(trCalls[k], trBody)

\* the first two providers have failed and the third has answered
C24_Witness ==
  /\ trPc = "done"
  /\ trOutcomes = <<"fail", "fail", "ok">>
  /\ trResponse.success
  /\ trResponse.provider = "LibreTranslate"

\* C25: when every provider has failed the caller gets the error with code
\* SERVICE_UNAVAILABLE and no translated text.
C25_AllFailUnavailable ==
  (trPc = "done" /\ Len(trOutcomes) = Len(Providers)
     /\ \A k \in 1..Len(trOutcomes) : trOutcomes[k] = "fail")
    => trResponse = Failure("SERVICE_UNAVAILABLE")

\* C26: every connected client has a session record, joined to a room or
\* not, so the session count of the introspection endpoint is the number of
\* connected clients.
C26_SessionPerConnection ==
  /\ \A s \in Connected : userSessions[s] # NoSession
  /\ Cardinality({s \in AllSockets : userSessions[s] # NoSession})
       = Cardinality(Connected)

\* C29: a join of a room that has a record leaves the record's creator as
\* it was.
C29_CreatorKept ==
  [][ \A r \in (DOMAIN activeRooms) \cap (DOMAIN activeRooms') :
        activeRooms'[r].createdBy = activeRooms[r].createdBy ]_vars

\* C27: once a permission-denied error has been reported to the hook, the
\* status is Error and stays Error until the caller starts again.
C27_ErrorStaysUntilStart ==
  [][ (status = "error" /\ hookError = GetErrorMessage("not-allowed"))
        => (status' = "error" \/ lastEvent'.kind = "hookStart") ]_vars

\* C28: a start in a browser without speech recognition reports the error
\* to the caller and changes nothing else: no start is scheduled, the
\* recogniser stays inactive, and status, transcripts and timers are as
\* before.
C28_UnsupportedStartRejected ==
  [][ lastEvent'.kind = "hookStartUnsupported" =>
        /\ hookError' = NotSupportedMessage
        /\ rec' = "inactive"
        /\ ~startPending'
        /\ UNCHANGED <<rec, isListening, callbacks, startPending, status,
                       hookIsListening, finalTranscript, interimTranscript,
                       autoStopTimer, noSpeechTimer, retryTimers>> ]_vars

\* a start has been rejected in a browser without speech recognition
C28_Witness ==
  /\ ~isSupported
  /\ lastEvent.kind = "hookStartUnsupported"
  /\ hookError = NotSupportedMessage
  /\ rec = "inactive"
  /\ status = "idle"

\* C30: the stopListening of the caller leaves neither the max-duration
\* timer nor the silence timer armed, and a timer fires only while it is
\* armed, so no timer armed before the stop fires after it.
C30_StopClearsTimers ==
  [][ /\ lastEvent'.kind = "stop" => (~autoStopTimer' /\ ~noSpeechTimer')
      /\ lastEvent'.kind = "autoStop" => autoStopTimer
      /\ lastEvent'.kind = "noSpeechStop" => noSpeechTimer ]_vars

\* the caller's stop has run on a recogniser that was listening, that is
\* with the max-duration timer armed since onstart
C30_Witness ==
  /\ lastEvent.kind = "stop"
  /\ rec = "stopping"
  /\ ~autoStopTimer
  /\ ~noSpeechTimer

\* C38: the participant list of every stored room record is the room's
\* current participant set.
C38_RecordParticipantsCurrent ==
  \A r \in DOMAIN activeRooms : activeRooms[r].participants = Participants(r)

\* C39: every message:new carries the user id recorded for the sending
\* session, and the id and the timestamp the server made, whatever the
\* payload holds.
C39_ServerStampsMessage ==
  \A e \in emits :
    e.event = "message:new" =>
      /\ e.message.userId = userSessions[e.from].userId
      /\ e.message.timestamp = ServerTime
      /\ e.message.id = ServerMessageId

\* C32: while a message whose translation failed is in the log without a
\* translation, the error of its translation is still shown: no start of
\* another translation and no other event clears it.
C32_ErrorMarkerStays ==
  \A i \in DOMAIN requests :
    (requests[i].status = "failed"
       /\ messages[i].translatedContent = Undefined)
      => translationError # "null"

\* C34: no two messages of the log have the same id.
C34_UniqueIds ==
  \A i, j \in DOMAIN messages : i # j => messages[i].id # messages[j].id

\* C31: when the utterance that is spoken ends with an error event, the step
\* removes its item from the queue, and a next item, if there is one, can be
\* handed to speak.
C31_ErrorDequeues ==
  [][ spEvent' = "error" =>
        /\ spQueue' = Slice1(spQueue)
        /\ (spQueue' # <<>> => ProcessEnabled') ]_vars

\* C36: right after an explicit stopListening has run, a retry timer that an
\* earlier recoverable error has set does not start the engine.
C36_NoRestartAfterStop ==
  [][ lastEvent.kind = "stop" =>
        ~(lastEvent'.kind = "retry" /\ rec' = "starting") ]_vars

\* C37: when recognition starts after an automatic retry, the callbacks of
\* the caller's start are still registered and the caller's view of
\* listening agrees with the engine's.
C37_RetryKeepsCallbacks ==
  [][ (lastEvent.kind = "retry" /\ lastEvent'.kind = "onstart") =>
        /\ callbacks' = "hook"
        /\ hookIsListening' = isListening' ]_vars

\* C33: the content of every message is the transcript of one final result.
C33_ContentIsOneFinal ==
  \A i \in DOMAIN messages : messages[i].content \in PageTexts

\* C35: when the caller's startListening has started the service, the
\* store's isListening is true.
C35_ListeningAfterStart ==
  [][ (pgEvent' = "start" /\ pgSupported /\ svcListening') =>
        store'.isListening ]_vars

\* C40: isTranslating is true exactly while a translation request is in
\* flight.
C40_TranslatingWhilePending ==
  pgIsTranslating <=>
    \E i \in DOMAIN requests : requests[i].status = "pending"


====
